---- MODULE Spec2Model ----
(***************************************************************************)
(* Geneapp.py: a Streamlit script that reads seven number widgets (the     *)
(* reference gene EMC7 and six target genes), and, in a script run started *)
(* by the Predict button, computes a risk score in binary64 arithmetic,    *)
(* compares it with a fixed cutoff and renders score, category and the     *)
(* per-gene details.                                                       *)
(*                                                                         *)
(* Python floats are IEEE-754 binary64.  TLC's integers are 32 bits wide,  *)
(* so a significand is kept as a natural number in base 2^15 limbs and the *)
(* float operations are computed exactly and then rounded to nearest, ties *)
(* to even, at 53 bits.                                                    *)
(***************************************************************************)
EXTENDS Integers, Sequences, FiniteSets, TLC

(***************************************************************************)
(* Natural numbers of any size: little-endian sequences of limbs, no       *)
(* leading zero limb, <<>> is zero.                                        *)
(***************************************************************************)
LimbBits == 15

Base == 2 ^ LimbBits

RECURSIVE BNorm(_)
BNorm(a) ==
    IF a = <<>> THEN <<>>
    ELSE IF a[Len(a)] = 0 THEN BNorm(SubSeq(a, 1, Len(a) - 1))
    ELSE a

RECURSIVE BFromInt(_)
BFromInt(n) ==
    IF n = 0 THEN <<>> ELSE <<n % Base>> \o BFromInt(n \div Base)

RECURSIVE BToInt(_)
BToInt(a) ==
    IF a = <<>> THEN 0 ELSE a[1] + Base * BToInt(Tail(a))

Limb(a, i) == IF i <= Len(a) THEN a[i] ELSE 0

RECURSIVE BAddFrom(_, _, _, _)
BAddFrom(a, b, i, carry) ==
    IF i > Len(a) /\ i > Len(b)
    THEN (IF carry = 0 THEN <<>> ELSE <<carry>>)
    ELSE LET t == Limb(a, i) + Limb(b, i) + carry
         IN  <<t % Base>> \o BAddFrom(a, b, i + 1, t \div Base)

BAdd(a, b) == BAddFrom(a, b, 1, 0)

\* a - b for a >= b
RECURSIVE BSubFrom(_, _, _, _)
BSubFrom(a, b, i, borrow) ==
    IF i > Len(a) THEN <<>>
    ELSE LET t == Limb(a, i) - Limb(b, i) - borrow
         IN  IF t < 0
             THEN <<t + Base>> \o BSubFrom(a, b, i + 1, 1)
             ELSE <<t>> \o BSubFrom(a, b, i + 1, 0)

BSub(a, b) == BNorm(BSubFrom(a, b, 1, 0))

\* compare limbs from position i downwards: -1, 0 or 1
RECURSIVE BCmpFrom(_, _, _)
BCmpFrom(a, b, i) ==
    IF i = 0 THEN 0
    ELSE IF a[i] < b[i] THEN -1
    ELSE IF a[i] > b[i] THEN 1
    ELSE BCmpFrom(a, b, i - 1)

BCmp(a, b) ==
    IF Len(a) < Len(b) THEN -1
    ELSE IF Len(a) > Len(b) THEN 1
    ELSE BCmpFrom(a, b, Len(a))

\* a * d for a limb-sized d
RECURSIVE BMulSmallFrom(_, _, _, _)
BMulSmallFrom(a, d, i, carry) ==
    IF i > Len(a)
    THEN (IF carry = 0 THEN <<>> ELSE <<carry>>)
    ELSE LET t == a[i] * d + carry
         IN  <<t % Base>> \o BMulSmallFrom(a, d, i + 1, t \div Base)

BMulSmall(a, d) == IF d = 0 THEN <<>> ELSE BMulSmallFrom(a, d, 1, 0)

RECURSIVE BMulFrom(_, _, _)
BMulFrom(a, b, j) ==
    IF j > Len(b) THEN <<>>
    ELSE BAdd(BMulSmall(a, b[j]), <<0>> \o BMulFrom(a, b, j + 1))

BMul(a, b) == BNorm(BMulFrom(a, b, 1))

\* floor(a / d) for 0 < d < Base: limbs from the top, rem is the running remainder
RECURSIVE BDivSmallFrom(_, _, _, _)
BDivSmallFrom(a, d, i, rem) ==
    IF i = 0 THEN <<>>
    ELSE LET t == rem * Base + a[i]
         IN  BDivSmallFrom(a, d, i - 1, t % d) \o <<t \div d>>

BDivSmall(a, d) == BNorm(BDivSmallFrom(a, d, Len(a), 0))

Zeros(n) == [i \in 1..n |-> 0]

\* a * 2^s
BShl(a, s) ==
    IF a = <<>> THEN <<>>
    ELSE Zeros(s \div LimbBits) \o BMulSmall(a, 2 ^ (s % LimbBits))

\* floor(a / 2^s)
BShr(a, s) ==
    LET k == s \div LimbBits
    IN  IF k >= Len(a) THEN <<>>
        ELSE BDivSmall(SubSeq(a, k + 1, Len(a)), 2 ^ (s % LimbBits))

RECURSIVE IntBitLen(_)
IntBitLen(n) == IF n = 0 THEN 0 ELSE 1 + IntBitLen(n \div 2)

BBitLen(a) ==
    IF a = <<>> THEN 0 ELSE (Len(a) - 1) * LimbBits + IntBitLen(a[Len(a)])

BOdd(a) == a # <<>> /\ a[1] % 2 = 1

RECURSIVE BPow10(_)
BPow10(d) == IF d = 0 THEN <<1>> ELSE BMulSmall(BPow10(d - 1), 10)

RECURSIVE BDivPow10(_, _)
BDivPow10(a, d) == IF d = 0 THEN a ELSE BDivPow10(BDivSmall(a, 10), d - 1)

(***************************************************************************)
(* binary64.  A finite float is [s, m, e]: (-1)^s * m * 2^e with m of      *)
(* exactly 53 bits (normal), or fewer bits and e = -1074 (subnormal), or   *)
(* m = <<>> and e = 0 (a signed zero).  The representation is canonical:   *)
(* two floats are equal as records iff they are the same float.            *)
(* Every magnitude computed here is below 2^6, so the exponent range is    *)
(* never exceeded and no infinity arises.                                  *)
(***************************************************************************)
Precision == 53

MinExp == -1074

FZero(s) == [s |-> s, m |-> <<>>, e |-> 0]

Min(a, b) == IF a < b THEN a ELSE b

Max(a, b) == IF a > b THEN a ELSE b

\* the exponent of the last bit a float of value m * 2^e keeps
Quantum(m, e) == Max(BBitLen(m) + e - Precision, MinExp)

\* quo, or quo + 1: c compares the dropped part with one half; ties go to even
RoundDigits(quo, c) ==
    IF c = 1 \/ (c = 0 /\ BOdd(quo)) THEN BAdd(quo, <<1>>) ELSE quo

BRoundFrom(m, sh, quo) ==
    RoundDigits(quo, BCmp(BSub(m, BShl(quo, sh)), BShl(<<1>>, sh - 1)))

\* m / 2^sh rounded to the nearest integer, ties to even (sh > 0)
BRound(m, sh) == BRoundFrom(m, sh, BShr(m, sh))

\* r * 2^q with r of at most 54 bits, as a float
FRenorm(s, r, q) ==
    IF r = <<>> THEN FZero(s)
    ELSE IF BBitLen(r) > Precision THEN [s |-> s, m |-> BShr(r, 1), e |-> q + 1]
    ELSE [s |-> s, m |-> r, e |-> q]

FRoundAt(s, m, e, q) ==
    IF q <= e THEN [s |-> s, m |-> BShl(m, e - q), e |-> q]
    ELSE FRenorm(s, BRound(m, q - e), q)

\* round (-1)^s * m * 2^e to nearest, ties to even
FRound(s, m, e) ==
    IF m = <<>> THEN FZero(s) ELSE FRoundAt(s, m, e, Quantum(m, e))

FNeg(x) == [x EXCEPT !.s = 1 - x.s]

FIsZero(x) == x.m = <<>>

\* the sum of (-1)^sx * mx * 2^e and (-1)^sy * my * 2^e; c compares mx with my
FAddMag(sx, mx, sy, my, e, c) ==
    IF sx = sy THEN FRound(sx, BAdd(mx, my), e)
    ELSE IF c = 0 THEN FZero(0)
    ELSE IF c = 1 THEN FRound(sx, BSub(mx, my), e)
    ELSE FRound(sy, BSub(my, mx), e)

FAddAligned(sx, mx, sy, my, e) == FAddMag(sx, mx, sy, my, e, BCmp(mx, my))

FAddAt(x, y, e) == FAddAligned(x.s, BShl(x.m, x.e - e), y.s, BShl(y.m, y.e - e), e)

\* x + y
FAdd(x, y) ==
    IF FIsZero(x) /\ FIsZero(y)
    THEN FZero(IF x.s = 1 /\ y.s = 1 THEN 1 ELSE 0)
    ELSE IF FIsZero(x) THEN y
    ELSE IF FIsZero(y) THEN x
    ELSE FAddAt(x, y, Min(x.e, y.e))

\* x - y
FSub(x, y) == FAdd(x, FNeg(y))

\* x * y
FMul(x, y) ==
    IF FIsZero(x) \/ FIsZero(y) THEN FZero((x.s + y.s) % 2)
    ELSE FRound((x.s + y.s) % 2, BMul(x.m, y.m), x.e + y.e)

FCmpAt(x, y, e) ==
    (IF x.s = 1 THEN -1 ELSE 1) * BCmp(BShl(x.m, x.e - e), BShl(y.m, y.e - e))

\* -1, 0, 1 as x < y, x = y (as numbers: -0.0 = 0.0), x > y
FCmp(x, y) ==
    IF FIsZero(x) /\ FIsZero(y) THEN 0
    ELSE IF FIsZero(x) THEN (IF y.s = 1 THEN 1 ELSE -1)
    ELSE IF FIsZero(y) THEN (IF x.s = 1 THEN -1 ELSE 1)
    ELSE IF x.s # y.s THEN (IF x.s = 1 THEN -1 ELSE 1)
    ELSE FCmpAt(x, y, Min(x.e, y.e))

\* x > y
FGt(x, y) == FCmp(x, y) = 1

\* float(n) for a Python int n that is small
FFromInt(n) ==
    IF n < 0 THEN FRound(1, BFromInt(-n), 0) ELSE FRound(0, BFromInt(n), 0)

LiteralShift == 80

\* num / 10^d with quo its integer part: twice quo, plus one if anything is left
FLiteralSticky(num, quo, d) ==
    BAdd(BShl(quo, 1), IF BSub(num, BMul(quo, BPow10(d))) = <<>> THEN <<>> ELSE <<1>>)

FLiteralFrom(neg, num, d) ==
    FRound(neg, FLiteralSticky(num, BDivPow10(num, d), d), -(LiteralShift + 1))

\* the float nearest to the decimal literal [neg, n, d]: (-1)^neg * n / 10^d
\* (n / 10^d is at least 2^-24, so quo has more than 55 bits and the sticky bit
\* below it rounds as the exact quotient does)
FLiteral(neg, n, d) ==
    IF n = 0 THEN FZero(neg)
    ELSE FLiteralFrom(neg, BShl(BFromInt(n), LiteralShift), d)

FFormatDigits(p, e) ==
    IF e >= 0 THEN BToInt(BShl(p, e)) ELSE BToInt(BRound(p, -e))

\* "%.<d>f" % x as [neg, n]: the digits n of |x| * 10^d rounded to the nearest
\* integer, ties to even; neg is the sign that is printed
FFormat(x, d) ==
    IF FIsZero(x) THEN [neg |-> x.s, n |-> 0]
    ELSE [neg |-> x.s, n |-> FFormatDigits(BMul(x.m, BPow10(d)), x.e)]

(***************************************************************************)
(* The script's constants (section 1 of the script).  A decimal literal is *)
(* [neg, n, d]: (-1)^neg * n / 10^d; Python reads it as the nearest float. *)
(***************************************************************************)
REF_GENE == "EMC7"

\* COEFFICIENTS.keys() / .items(): a dict iterates in insertion order
GeneOrder == <<"TCEAL4", "ACTR3B", "ORAI3", "PRIM1", "LEMD1", "INHBB">>

Genes == {GeneOrder[i] : i \in 1..Len(GeneOrder)}

\* the table with the sign of ACTR3B lost
CoefficientLiteralsUnsigned ==
    [TCEAL4 |-> [neg |-> 0, n |-> 3364594, d |-> 7],
     ACTR3B |-> [neg |-> 0, n |-> 4104630, d |-> 7],
     ORAI3  |-> [neg |-> 0, n |-> 2523666, d |-> 7],
     PRIM1  |-> [neg |-> 1, n |-> 2529674, d |-> 7],
     LEMD1  |-> [neg |-> 0, n |-> 2133200, d |-> 7],
     INHBB  |-> [neg |-> 0, n |-> 1491095, d |-> 7]]

CoefficientLiterals ==
    [TCEAL4 |-> [neg |-> 0, n |-> 3364594, d |-> 7],
     ACTR3B |-> [neg |-> 1, n |-> 4104630, d |-> 7],
     ORAI3  |-> [neg |-> 0, n |-> 2523666, d |-> 7],
     PRIM1  |-> [neg |-> 1, n |-> 2529674, d |-> 7],
     LEMD1  |-> [neg |-> 0, n |-> 2133200, d |-> 7],
     INHBB  |-> [neg |-> 0, n |-> 1491095, d |-> 7]]

CoefficientTable ==
    [g \in Genes |-> FLiteral(CoefficientLiterals[g].neg,
                              CoefficientLiterals[g].n,
                              CoefficientLiterals[g].d)]

CutoffValue == FLiteral(0, 5739, 4)

(***************************************************************************)
(* The sidebar's seven st.number_input widgets.  A widget's value is kept  *)
(* in hundredths (format "%.2f"); the call returns it as a float.          *)
(***************************************************************************)
Widgets == {REF_GENE} \cup Genes

WidgetOrder == GeneOrder \o <<REF_GENE>>

MinValue == 0

MaxValue == 2500

DefaultRef == 690

DefaultTarget == 1000

DefaultValue(w) == IF w = REF_GENE THEN DefaultRef ELSE DefaultTarget

\* min_value <= v <= max_value: the widget holds no value outside its range
NumberInputAccepts(v) == MinValue <= v /\ v <= MaxValue

(***************************************************************************)
(* The values a user enters in the model.  Outside a tracked session each  *)
(* widget takes the first NumVals of its list: its default; a profile that *)
(* scores exactly the cutoff with EMC7 at 6.90; the range's maximum; the   *)
(* range's minimum.  In a tracked session (two submissions are compared)   *)
(* the first PairEdited widgets of WidgetOrder are edited, between the     *)
(* default and one other value.                                            *)
(***************************************************************************)
NumVals == 2

PairEdited == 6

Choices ==
    [EMC7   |-> <<DefaultRef, 1000, 2500, 0>>,
     TCEAL4 |-> <<DefaultTarget, 468, 2500, 0>>,
     ACTR3B |-> <<DefaultTarget, 443, 2500, 0>>,
     ORAI3  |-> <<DefaultTarget, 815, 2500, 0>>,
     PRIM1  |-> <<DefaultTarget, 1693, 2500, 0>>,
     LEMD1  |-> <<DefaultTarget, 2327, 2500, 0>>,
     INHBB  |-> <<DefaultTarget, 44, 2500, 0>>]

PairChoices ==
    [w \in Widgets |-> IF w = REF_GENE THEN <<DefaultRef, 1000>>
                                       ELSE <<DefaultTarget, 2240>>]

SessionValues(w) == {Choices[w][i] : i \in 1..Min(NumVals, Len(Choices[w]))}

TrackedValues(w) ==
    IF \E i \in 1..Min(PairEdited, Len(WidgetOrder)) : WidgetOrder[i] = w
    THEN {PairChoices[w][i] : i \in 1..Len(PairChoices[w])}
    ELSE {DefaultValue(w)}

AllWidgetValues ==
    UNION {{Choices[w][i] : i \in 1..Len(Choices[w])} \cup
           {PairChoices[w][i] : i \in 1..Len(PairChoices[w])} : w \in Widgets}

WidgetFloat == [h \in AllWidgetValues |-> FLiteral(0, h, 2)]

\* st.number_input(...): the float of the widget's current value
NumberInput(h) == WidgetFloat[h]

(***************************************************************************)
(* Section 4 of the script: the computation under "if predict_btn:".       *)
(***************************************************************************)
\* the reference is not subtracted
NormExprRaw(raw_val, ref) == raw_val

\* norm_expr = raw_val - val_ref
NormExpr(raw_val, ref) == FSub(raw_val, ref)

\* + typed for *
ContributionAdded(norm_expr, coef) == FAdd(norm_expr, coef)

\* contribution = norm_expr * coef
Contribution(norm_expr, coef) == FMul(norm_expr, coef)

\* the dict appended to calculation_details
Detail(gene, raw_val, norm_expr, coef, contribution) ==
    [Gene |-> gene, RawValue |-> raw_val, NormValue |-> norm_expr,
     Coefficient |-> coef, Contribution |-> contribution]

DetailOf(gene, raw_val, norm_expr, coef) ==
    Detail(gene, raw_val, norm_expr, coef, Contribution(norm_expr, coef))

\* the record is put in front of the list
AccumulatePrepended(st, rec) ==
    [risk_score |-> FAdd(st.risk_score, rec.Contribution),
     calculation_details |-> <<rec>> \o st.calculation_details]

\* risk_score += contribution; calculation_details.append({...})
Accumulate(st, rec) ==
    [risk_score |-> FAdd(st.risk_score, rec.Contribution),
     calculation_details |-> Append(st.calculation_details, rec)]

\* one pass of the for loop over COEFFICIENTS.items()
LoopBody(st, gene, coef, ref, inp) ==
    Accumulate(st, DetailOf(gene, inp[gene], NormExpr(inp[gene], ref), coef))

RECURSIVE ScoreLoop(_, _, _, _, _)
ScoreLoop(i, st, coefs, ref, inp) ==
    IF i > Len(GeneOrder) THEN st
    ELSE ScoreLoop(i + 1, LoopBody(st, GeneOrder[i], coefs[GeneOrder[i]], ref, inp),
                   coefs, ref, inp)

\* >= typed for >
IsHighRiskOrEqual(score, cutoff) == FCmp(score, cutoff) >= 0

\* is_high_risk = risk_score > CUTOFF_VALUE
IsHighRisk(score, cutoff) == FGt(score, cutoff)

\* the label's English part; the script appends its Chinese translation
RiskLevel(high) == IF high THEN "High Risk" ELSE "Low Risk"

Recommendation(high) == IF high THEN "High Risk Strategy" ELSE "Low Risk Strategy"

DetailDecimals == 4

\* the details table: the four numeric columns under "{:.4f}"
DetailRow(r) ==
    [Gene |-> r.Gene,
     RawValue |-> FFormat(r.RawValue, DetailDecimals),
     NormValue |-> FFormat(r.NormValue, DetailDecimals),
     Coefficient |-> FFormat(r.Coefficient, DetailDecimals),
     Contribution |-> FFormat(r.Contribution, DetailDecimals)]

\* what the run puts on the page under "if predict_btn:"
Rendered(score, level, high, details) ==
    [shown |-> TRUE,
     score |-> FFormat(score, DetailDecimals),
     level |-> level,
     recommendation |-> Recommendation(high),
     details |-> [i \in 1..Len(details) |-> DetailRow(details[i])]]

\* a run that skips the block renders no result
NoResult == [shown |-> FALSE]

\* a name the run has not bound
Unbound == [unbound |-> TRUE]

VARIABLES
    widget,               \* the browser's widget values, in hundredths
    trigger,              \* what started the latest script run
    COEFFICIENTS, CUTOFF_VALUE,
    val_ref, inputs, predict_btn,
    risk_score, calculation_details, is_high_risk, risk_level,
    display,              \* the result the page shows
    track,                \* whether the session records an earlier submission
    prev                  \* the recorded earlier submission

vars == <<widget, trigger, COEFFICIENTS, CUTOFF_VALUE, val_ref, inputs, predict_btn,
          risk_score, calculation_details, is_high_risk, risk_level, display,
          track, prev>>

NoPrev == [taken |-> FALSE]

\* a button that stays pressed, as a checkbox would
ButtonValueSticky(ev) == ev = "click" \/ (ev = "input" /\ predict_btn)

\* st.button(...): True only in the run its click started
ButtonValue(ev) == ev = "click"

\* the score of the run before is kept, as a value held in session state would be
InitialScoreCarried == IF predict_btn THEN risk_score ELSE FFromInt(0)

\* risk_score = 1
InitialScoreOne == FFromInt(1)

\* risk_score = 0 (a Python int: the first += makes it a float)
InitialScore == FFromInt(0)

\* inputs[gene] = st.number_input(...) for gene in COEFFICIENTS.keys()
Inputs(w) == [g \in Genes |-> NumberInput(w[g])]

\* the names bound by a run that skips the block under "if predict_btn:"
Skipped(ref, inp) ==
    [val_ref |-> ref, inputs |-> inp, predict_btn |-> FALSE,
     risk_score |-> Unbound, calculation_details |-> Unbound,
     is_high_risk |-> Unbound, risk_level |-> Unbound,
     display |-> NoResult]

Labelled(ref, inp, st, high, level) ==
    [val_ref |-> ref, inputs |-> inp, predict_btn |-> TRUE,
     risk_score |-> st.risk_score,
     calculation_details |-> st.calculation_details,
     is_high_risk |-> high, risk_level |-> level,
     display |-> Rendered(st.risk_score, level, high, st.calculation_details)]

Judged(ref, inp, st, high) == Labelled(ref, inp, st, high, RiskLevel(high))

Scored(ref, inp, st) == Judged(ref, inp, st, IsHighRisk(st.risk_score, CutoffValue))

\* the names bound by a run that enters the block
Predicted(ref, inp) ==
    Scored(ref, inp,
           ScoreLoop(1, [risk_score |-> InitialScore, calculation_details |-> <<>>],
                     CoefficientTable, ref, inp))

\* the names the whole script binds in a run started by ev with widget values w
RunResult(ev, w) ==
    IF ButtonValue(ev) THEN Predicted(NumberInput(w[REF_GENE]), Inputs(w))
    ELSE Skipped(NumberInput(w[REF_GENE]), Inputs(w))

Bind(ev, r) ==
    /\ trigger' = ev
    /\ COEFFICIENTS' = CoefficientTable
    /\ CUTOFF_VALUE' = CutoffValue
    /\ val_ref' = r.val_ref
    /\ inputs' = r.inputs
    /\ predict_btn' = r.predict_btn
    /\ risk_score' = r.risk_score
    /\ calculation_details' = r.calculation_details
    /\ is_high_risk' = r.is_high_risk
    /\ risk_level' = r.risk_level
    /\ display' = r.display

\* one run of the script, top to bottom
ScriptRun(ev, w) == Bind(ev, RunResult(ev, w))

DefaultWidgets == [w \in Widgets |-> DefaultValue(w)]

FirstRun(r) ==
    /\ widget = DefaultWidgets
    /\ trigger = "load"
    /\ COEFFICIENTS = CoefficientTable
    /\ CUTOFF_VALUE = CutoffValue
    /\ val_ref = r.val_ref
    /\ inputs = r.inputs
    /\ predict_btn = r.predict_btn
    /\ risk_score = r.risk_score
    /\ calculation_details = r.calculation_details
    /\ is_high_risk = r.is_high_risk
    /\ risk_level = r.risk_level
    /\ display = r.display
    /\ prev = NoPrev

\* the page is opened: the script runs once with every widget at its default
InitRun == FirstRun(RunResult("load", DefaultWidgets))

Init == InitRun /\ track = FALSE

InitPair == InitRun /\ track = TRUE

Values(w) == IF track THEN TrackedValues(w) ELSE SessionValues(w)

\* the user sets widget w to v: the script reruns
ChangeInput(w, v) ==
    /\ v # widget[w]
    /\ NumberInputAccepts(v)
    /\ widget' = [widget EXCEPT ![w] = v]
    /\ ScriptRun("input", widget')
    /\ UNCHANGED <<track, prev>>

\* the submission a tracked session may record
Snapshot(ref, inp, score, high, details) ==
    [taken |-> TRUE, val_ref |-> ref, inputs |-> inp,
     risk_score |-> score, is_high_risk |-> high,
     calculation_details |-> details, other |-> FALSE]

\* the user presses Predict: the script reruns with predict_btn True
ClickPredict ==
    /\ widget' = widget
    /\ ScriptRun("click", widget)
    /\ track' = track
    /\ \E keep \in BOOLEAN :
          prev' = IF ~track THEN prev
                  ELSE IF keep /\ prev.taken
                  THEN [prev EXCEPT !.other =
                           @ \/ val_ref' # prev.val_ref \/ inputs' # prev.inputs]
                  ELSE Snapshot(val_ref', inputs', risk_score', is_high_risk',
                                calculation_details')

Next ==
    \/ \E w \in Widgets : \E v \in Values(w) : ChangeInput(w, v)
    \/ ClickPredict

Spec == Init /\ [][Next]_vars

SpecPair == InitPair /\ [][Next]_vars

(***************************************************************************)
(* The claims.  What a claim asserts is written with the numbers the claim *)
(* gives, in binary64, with the terms added in the table's order.          *)
(***************************************************************************)
ClaimedOrder == <<"TCEAL4", "ACTR3B", "ORAI3", "PRIM1", "LEMD1", "INHBB">>

ClaimedCoefficient ==
    [TCEAL4 |-> FLiteral(0, 3364594, 7), ACTR3B |-> FLiteral(1, 4104630, 7),
     ORAI3  |-> FLiteral(0, 2523666, 7), PRIM1  |-> FLiteral(1, 2529674, 7),
     LEMD1  |-> FLiteral(0, 2133200, 7), INHBB  |-> FLiteral(0, 1491095, 7)]

ClaimedCutoff == FLiteral(0, 5739, 4)

\* (target[g] - reference) * coefficient[g]
Term(target, reference, g) == FMul(FSub(target[g], reference), ClaimedCoefficient[g])

\* the sum of the six terms
WeightedSum(target, reference) ==
    FAdd(FAdd(FAdd(FAdd(FAdd(FAdd(FFromInt(0),
        Term(target, reference, "TCEAL4")), Term(target, reference, "ACTR3B")),
        Term(target, reference, "ORAI3")), Term(target, reference, "PRIM1")),
        Term(target, reference, "LEMD1")), Term(target, reference, "INHBB"))

\* x > y, read off the sign of x - y
Exceeds(x, y) == ~FIsZero(FSub(x, y)) /\ FSub(x, y).s = 0

\* C1: in every run that predicts, the risk score equals the sum over the six
\* genes of (target value - reference value) * coefficient, with the claim's
\* coefficients
C1_ScoreIsWeightedSum ==
    predict_btn => risk_score = WeightedSum(inputs, val_ref)

C1_Witness ==
    /\ predict_btn
    /\ widget["EMC7"] = 1000 /\ widget["TCEAL4"] = 468 /\ widget["PRIM1"] = 1000
    /\ ~FIsZero(risk_score)

\* C2: the prediction is high risk iff the risk score is strictly greater than
\* the cutoff 0.5739 (a score equal to the cutoff is low risk), and the label
\* shown is the high-risk label exactly then
C2_HighRiskIffAboveCutoff ==
    predict_btn =>
        /\ is_high_risk = Exceeds(risk_score, ClaimedCutoff)
        /\ (risk_level = "High Risk") = Exceeds(risk_score, ClaimedCutoff)
        /\ (risk_level = "Low Risk") = ~Exceeds(risk_score, ClaimedCutoff)
        /\ display.level = risk_level

\* a score exactly equal to the cutoff, shown as low risk
C2_Witness ==
    /\ predict_btn
    /\ risk_score = ClaimedCutoff
    /\ ~is_high_risk
    /\ display.level = "Low Risk"

SameInputs == prev.val_ref = val_ref /\ prev.inputs = inputs

\* C5: two submissions with identical inputs yield the same score and category
\* whatever was submitted in between, and the coefficient table and the cutoff
\* are never changed
C5_Deterministic ==
    /\ COEFFICIENTS = ClaimedCoefficient
    /\ CUTOFF_VALUE = ClaimedCutoff
    /\ (predict_btn /\ prev.taken /\ SameInputs) =>
           (prev.risk_score = risk_score /\ prev.is_high_risk = is_high_risk)

\* the same inputs submitted again after a submission with other inputs
C5_Witness ==
    predict_btn /\ prev.taken /\ prev.other /\ SameInputs

AllEqualReference == \A g \in Genes : inputs[g] = val_ref

\* C6: if each of the six target values equals the reference value, the risk
\* score is exactly 0 and the prediction is low risk
C6_ZeroNormalization ==
    (predict_btn /\ AllEqualReference) =>
        (FCmp(risk_score, FFromInt(0)) = 0 /\ ~is_high_risk)

C6_Witness == predict_btn /\ AllEqualReference /\ display.shown

RECURSIVE SumContributions(_, _)
SumContributions(details, i) ==
    IF i = 0 THEN FFromInt(0)
    ELSE FAdd(SumContributions(details, i - 1), details[i].Contribution)

DetailAsClaimed(r, g) ==
    /\ r.Gene = g
    /\ r.RawValue = inputs[g]
    /\ r.NormValue = FSub(r.RawValue, val_ref)
    /\ r.Coefficient = ClaimedCoefficient[g]
    /\ r.Contribution = FMul(r.NormValue, r.Coefficient)

\* C7: after a prediction the detail list holds one record per key of the table,
\* in the table's order, each with normalized value = raw - reference and
\* contribution = normalized * coefficient, and the risk score is the sum of the
\* records' contributions
C7_DetailsAdditive ==
    predict_btn =>
        /\ Len(calculation_details) = Len(ClaimedOrder)
        /\ \A i \in 1..Len(ClaimedOrder) :
               DetailAsClaimed(calculation_details[i], ClaimedOrder[i])
        /\ risk_score = SumContributions(calculation_details, Len(calculation_details))

C7_Witness ==
    /\ predict_btn
    /\ Len(calculation_details) = 6
    /\ calculation_details[6].Gene = "INHBB"
    /\ widget["INHBB"] = 44

\* the contributions and the score under "%.7f"
SevenDecimals ==
    [i \in 1..Len(calculation_details) |-> FFormat(calculation_details[i].Contribution, 7)]

DefaultInput == predict_btn /\ widget = [w \in Widgets |-> IF w = "EMC7" THEN 690 ELSE 1000]

\* C8 as stated: for the default input the contributions are 1.0430341,
\* -1.2724353, 0.7823365, -0.7841989, 0.6612920, 0.4622395, the score is
\* 0.8922679 and the prediction is high risk
C8_AsStated ==
    DefaultInput =>
        /\ SevenDecimals = << [neg |-> 0, n |-> 10430341], [neg |-> 1, n |-> 12724353],
                              [neg |-> 0, n |-> 7823365],  [neg |-> 1, n |-> 7841989],
                              [neg |-> 0, n |-> 6612920],  [neg |-> 0, n |-> 4622395] >>
        /\ FFormat(risk_score, 7) = [neg |-> 0, n |-> 8922679]
        /\ is_high_risk

\* C8 amended: for the default input the contributions are 1.0430241,
\* -1.2724353, 0.7823365, -0.7841989, 0.6612920, 0.4622394, the score is
\* 0.8922578 and the prediction is high risk
C8_DefaultScenario ==
    DefaultInput =>
        /\ SevenDecimals = << [neg |-> 0, n |-> 10430241], [neg |-> 1, n |-> 12724353],
                              [neg |-> 0, n |-> 7823365],  [neg |-> 1, n |-> 7841989],
                              [neg |-> 0, n |-> 6612920],  [neg |-> 0, n |-> 4622394] >>
        /\ FFormat(risk_score, 7) = [neg |-> 0, n |-> 8922578]
        /\ is_high_risk

C8_Witness == DefaultInput /\ display.shown /\ display.level = "High Risk"

MaxScale == 5

ScaleFactors == (-MaxScale)..MaxScale

Abs(k) == IF k < 0 THEN -k ELSE k

\* k * x, exactly (not rounded to a float)
Scaled(x, k) ==
    [s |-> IF k < 0 THEN 1 - x.s ELSE x.s, m |-> BMulSmall(x.m, Abs(k)), e |-> x.e]

\* |x - y|, exactly
AbsDiffAt(x, y, mx, my) ==
    IF x.s # y.s THEN BAdd(mx, my)
    ELSE IF BCmp(mx, my) >= 0 THEN BSub(mx, my) ELSE BSub(my, mx)

AbsDiff(x, y) ==
    [s |-> 0,
     m |-> AbsDiffAt(x, y, BShl(x.m, x.e - Min(x.e, y.e)), BShl(y.m, y.e - Min(x.e, y.e))),
     e |-> Min(x.e, y.e)]

\* every normalized value of this submission is k times that of the recorded one
NormsScaled(k) ==
    \A i \in 1..Len(ClaimedOrder) :
        FCmp(calculation_details[i].NormValue,
             Scaled(prev.calculation_details[i].NormValue, k)) = 0

WidgetTargets == [g \in Genes |-> FLiteral(0, widget[g], 2)]

WidgetReference == FLiteral(0, widget["EMC7"], 2)

WidgetScore == WeightedSum(WidgetTargets, WidgetReference)

\* C10: a result is on the page only after a run started by the Predict button,
\* and it is the result of the values the widgets hold now
C10_NoStaleResult ==
    display.shown =>
        /\ trigger = "click"
        /\ display.score = FFormat(WidgetScore, 4)
        /\ display.level =
               (IF Exceeds(WidgetScore, ClaimedCutoff) THEN "High Risk" ELSE "Low Risk")
        /\ display.recommendation =
               (IF Exceeds(WidgetScore, ClaimedCutoff) THEN "High Risk Strategy"
                                                       ELSE "Low Risk Strategy")
        /\ \A i \in 1..Len(ClaimedOrder) :
               display.details[i].RawValue =
                   FFormat(WidgetTargets[ClaimedOrder[i]], 4)

\* a result shown for values entered after the page was opened
C10_Witness ==
    /\ display.shown
    /\ trigger = "click"
    /\ widget["EMC7"] = 1000
    /\ widget["LEMD1"] = 2327
====
